---- MODULE Spec2Model ----
(***************************************************************************)
(* Model of sqlx-core/src/logger.rs: the QueryLogger lifecycle object, the *)
(* level bridge between the `log` and `tracing` facilities, and the two    *)
(* text routines parse_query_summary and trim_query.                       *)
(*                                                                         *)
(* Texts are sequences of one-character strings.  The u64 counters are     *)
(* modelled at width CounterWidth bits (arithmetic modulo 2^CounterWidth), *)
(* so that the overflow of `+=` is reachable.                              *)
(***************************************************************************)
EXTENDS Integers, Sequences, FiniteSets, TLC

\* ------------------------------------------------------------------ bounds
CounterWidth == 1
MaxCalls == 2
MaxTime == 1
MaxFinish == 1
MaxTextLen == 8
MaxTabTextLen == 5
MaxWordsLen == 11

RECURSIVE Pow2(_)
Pow2(n) == IF n = 0 THEN 1 ELSE 2 * Pow2(n - 1)

\* The modulus of the counters (u64 in the source).
CounterMod == Pow2(CounterWidth)

\* ------------------------------------------------------------ text helpers
IsWhitespaceSpaceOnly(c) == c = " "

\* char::is_whitespace, restricted to the characters of the model's alphabet.
IsWhitespace(c) == c \in {" ", "\n", "\t"}

RECURSIVE TrimStart(_)
TrimStart(s) ==
    IF s = <<>> THEN <<>>
    ELSE IF IsWhitespace(Head(s)) THEN TrimStart(Tail(s))
    ELSE s

RECURSIVE TrimEnd(_)
TrimEnd(s) ==
    IF s = <<>> THEN <<>>
    ELSE IF IsWhitespace(s[Len(s)]) THEN TrimEnd(SubSeq(s, 1, Len(s) - 1))
    ELSE s

TrimStartOnly(s) == TrimStart(s)

\* str::trim
Trim(s) == TrimEnd(TrimStart(s))

\* str::split_whitespace: the maximal runs of non-whitespace characters.
RECURSIVE SplitFrom(_, _, _)
SplitFrom(s, cur, acc) ==
    IF s = <<>> THEN (IF cur = <<>> THEN acc ELSE Append(acc, cur))
    ELSE IF IsWhitespace(Head(s))
         THEN SplitFrom(Tail(s), <<>>, IF cur = <<>> THEN acc ELSE Append(acc, cur))
         ELSE SplitFrom(Tail(s), Append(cur, Head(s)), acc)

SplitWhitespace(s) == SplitFrom(s, <<>>, <<>>)

TakeAll(seq, n) == seq

\* Iterator::take
Take(seq, n) == SubSeq(seq, 1, IF Len(seq) < n THEN Len(seq) ELSE n)

\* [&str]::join
RECURSIVE Join(_, _)
Join(tokens, sep) ==
    IF tokens = <<>> THEN <<>>
    ELSE IF Len(tokens) = 1 THEN tokens[1]
    ELSE tokens[1] \o sep \o Join(Tail(tokens), sep)

SummaryWords == 4

parse_query_summary(sql) == Join(Take(SplitWhitespace(sql), SummaryWords), <<" ">>)

\* Positions at which `^` matches in multi-line mode: the start of the text
\* and the position after each "\n".
LineStarts(s) == {1} \cup {i + 1 : i \in {j \in 1..Len(s) : s[j] = "\n"}}

\* Number of consecutive spaces of s from position p on.
RECURSIVE SpaceRun(_, _)
SpaceRun(s, p) ==
    IF p > Len(s) THEN 0
    ELSE IF s[p] = " " THEN 1 + SpaceRun(s, p + 1)
    ELSE 0

\* The captures of ^( +)\S : the length of group 1 for each line that starts
\* with one or more spaces followed by a non-whitespace character.
IndentCaptures(s) ==
    {SpaceRun(s, p) : p \in {q \in LineStarts(s) :
        /\ SpaceRun(s, q) >= 1
        /\ q + SpaceRun(s, q) <= Len(s)
        /\ ~IsWhitespace(s[q + SpaceRun(s, q)])}}

SetMin(S) == CHOOSE m \in S : \A x \in S : m <= x

NoIndent == -1

\* The fold of lines 203-208: None (NoIndent) or the least capture length.
min_indent(s) == IF IndentCaptures(s) = {} THEN NoIndent ELSE SetMin(IndentCaptures(s))

\* RegexBuilder::new("^[ ]{1,indent}").build() is Ok iff the repetition
\* range is well formed; .unwrap() panics otherwise.
DedentRegexBuilds(indent) == indent >= 1

\* Replacing ^[ ]+ : every leading space of every line is removed.
RECURSIVE DedentAllFrom(_, _, _)
DedentAllFrom(s, p, indent) ==
    IF p > Len(s) THEN <<>>
    ELSE LET run == SpaceRun(s, p)
         IN IF p \in LineStarts(s) /\ run >= 1
            THEN DedentAllFrom(s, p + run, indent)
            ELSE <<s[p]>> \o DedentAllFrom(s, p + 1, indent)

\* Replacing ^[ ]{1,1} : one leading space of every line is removed.
RECURSIVE DedentOneFrom(_, _, _)
DedentOneFrom(s, p, indent) ==
    IF p > Len(s) THEN <<>>
    ELSE IF p \in LineStarts(s) /\ SpaceRun(s, p) >= 1
         THEN DedentOneFrom(s, p + 1, indent)
         ELSE <<s[p]>> \o DedentOneFrom(s, p + 1, indent)

\* replace_all of ^[ ]{1,indent} by "": at every line start, the greedy run
\* of at most `indent` spaces is removed.
RECURSIVE DedentFrom(_, _, _)
DedentFrom(s, p, indent) ==
    IF p > Len(s) THEN <<>>
    ELSE LET run == SpaceRun(s, p)
             cut == IF run < indent THEN run ELSE indent
         IN IF p \in LineStarts(s) /\ cut >= 1
            THEN DedentFrom(s, p + cut, indent)
            ELSE <<s[p]>> \o DedentFrom(s, p + 1, indent)

\* Whether one of the .unwrap() calls of trim_query panics on this text: the
\* indent regex is a constant pattern, group 1 always takes part in a match,
\* and the dedent regex is built only when an indentation was found.
TrimQueryPanics(sql) ==
    LET indent == min_indent(Trim(sql))
    IN indent # NoIndent /\ ~DedentRegexBuilds(indent)

trim_query(sql) ==
    LET trimmed_sql == Trim(sql)
        indent == min_indent(trimmed_sql)
    IN IF indent # NoIndent
       THEN DedentFrom(trimmed_sql, 1, indent)
       ELSE trimmed_sql

\* ------------------------------------------------------------ level bridge
\* Option<T>: None is the empty sequence, Some(x) the one-element sequence.
None == <<>>

Some(x) == <<x>>

LevelFilters == {"Off", "Error", "Warn", "Info", "Debug", "Trace"}

TracingLevelOfWarnAsError(filter) ==
    CASE filter = "Error" -> Some("ERROR")
      [] filter = "Warn"  -> Some("ERROR")
      [] filter = "Info"  -> Some("INFO")
      [] filter = "Debug" -> Some("DEBUG")
      [] filter = "Trace" -> Some("TRACE")
      [] filter = "Off"   -> None

\* The match of lines 46-53.
TracingLevelOf(filter) ==
    CASE filter = "Error" -> Some("ERROR")
      [] filter = "Warn"  -> Some("WARN")
      [] filter = "Info"  -> Some("INFO")
      [] filter = "Debug" -> Some("DEBUG")
      [] filter = "Trace" -> Some("TRACE")
      [] filter = "Off"   -> None

\* log::LevelFilter::to_level, as called on line 55.
to_level(filter) == IF filter = "Off" THEN None ELSE Some(filter)

\* Option::zip
Zip(a, b) == IF a = None \/ b = None THEN None ELSE Some(<<a[1], b[1]>>)

private_level_filter_to_levels(filter) == Zip(TracingLevelOf(filter), to_level(filter))

\* Severity order shared by the two facilities: Off < Error < ... < Trace.
FilterRank(filter) ==
    CASE filter = "Off"   -> 0
      [] filter = "Error" -> 1
      [] filter = "Warn"  -> 2
      [] filter = "Info"  -> 3
      [] filter = "Debug" -> 4
      [] filter = "Trace" -> 5

LogLevelRank(log_level) == FilterRank(log_level)

TracingLevelRank(tracing_level) ==
    CASE tracing_level = "ERROR" -> 1
      [] tracing_level = "WARN"  -> 2
      [] tracing_level = "INFO"  -> 3
      [] tracing_level = "DEBUG" -> 4
      [] tracing_level = "TRACE" -> 5

\* ------------------------------------------------------------ the program
VARIABLES
    pc,               \* "start", "live", "unwinding", "dropped"
    overflow_checks,  \* the build: TRUE when `+=` panics on overflow, FALSE when it wraps
    log_max,          \* the most verbose level the log facility enables for "sqlx::query"
    tracing_max,      \* the same for the tracing facility
    sql,              \* QueryLogger.sql
    settings,         \* QueryLogger.settings
    rows_returned,    \* QueryLogger.rows_returned
    rows_affected,    \* QueryLogger.rows_affected
    start,            \* QueryLogger.start
    span,             \* QueryLogger.span: its fields and the number of record() calls
    now,              \* the monotonic clock read by Instant::now and Instant::elapsed
    records,          \* the events emitted to target "sqlx::query", in order
    formatting,       \* number of invocations of each text routine so far
    history,          \* what the caller has done: the calls made and their arguments
    last_finish       \* the locals of the most recent run of finish()

vars == <<pc, overflow_checks, log_max, tracing_max, sql, settings, rows_returned,
          rows_affected, start, span, now, records, formatting, history, last_finish>>

\* The statement texts a caller passes to new().
SqlInputs ==
    { <<"a">>,
      <<"\n", " ", " ", "a", "\n", " ", "b", " ", "c", " ", "d", " ", "e", "\n">> }

SlowDurations == {0, MaxTime}

FacilityFilters == {"Off", "Info"}

\* The arguments a caller passes to increase_rows_affected.
AffectedArgs == {0, CounterMod - 1}

\* tracing::field::Empty, and a field an event does not carry.
EmptyField == -1

\* The locals of finish() before its first run.
NotRun ==
    [row_count |-> EmptyField, elapsed |-> 0, was_slow |-> FALSE, lvl |-> "Off",
     levels |-> None, log_is_enabled |-> FALSE, by_drop |-> FALSE, steps |-> <<>>,
     summary |-> <<>>]

\* The slow-statement severities tried: Off, one the facilities can enable
\* and one they do not.
SlowLevels == {"Off", "Warn", "Debug"}

LogSettings ==
    [statements_level : LevelFilters,
     slow_statements_level : SlowLevels,
     slow_statements_duration : SlowDurations]

Init ==
    /\ pc = "start"
    /\ overflow_checks \in BOOLEAN
    /\ log_max \in FacilityFilters
    /\ tracing_max \in FacilityFilters
    /\ sql \in SqlInputs
    /\ settings \in LogSettings
    /\ rows_returned = 0
    /\ rows_affected = 0
    /\ start = 0
    /\ span = [resource_name |-> <<>>, operation |-> <<>>, row_count |-> EmptyField,
               recorded |-> 0]
    /\ now = 0
    /\ records = <<>>
    /\ formatting = [trim_query |-> 0, parse_query_summary |-> 0, format |-> 0]
    /\ history = [returned_calls |-> 0, affected_sum |-> 0, calls |-> 0,
                  explicit_finishes |-> 0, finish_runs |-> 0, drops |-> 0,
                  panicked |-> FALSE, late_calls |-> 0]
    /\ last_finish = NotRun

\* log::log_enabled!(target: "sqlx::query", log_level)
LogEnabled(log_level) == LogLevelRank(log_level) <= FilterRank(log_max)

\* private_tracing_dynamic_enabled!(target: "sqlx::query", tracing_level)
private_tracing_dynamic_enabled(tracing_level) ==
    TracingLevelRank(tracing_level) <= FilterRank(tracing_max)

\* QueryLogger::new
New ==
    /\ pc = "start"
    /\ formatting' = [formatting EXCEPT !.trim_query = @ + 1]
    /\ IF TrimQueryPanics(sql)
       THEN /\ pc' = "dropped"
            /\ history' = [history EXCEPT !.panicked = TRUE]
            /\ UNCHANGED <<span, start>>
       ELSE /\ pc' = "live"
            /\ span' = [span EXCEPT !.resource_name = trim_query(sql),
                                    !.operation = trim_query(sql)]
            /\ start' = now
            /\ UNCHANGED history
    /\ UNCHANGED <<overflow_checks, log_max, tracing_max, sql, settings, rows_returned,
                   rows_affected, now, records, last_finish>>

\* Time passes between two calls.
Tick ==
    /\ pc = "live"
    /\ now < MaxTime
    /\ now' = now + 1
    /\ UNCHANGED <<pc, overflow_checks, log_max, tracing_max, sql, settings, rows_returned,
                   rows_affected, start, span, records, formatting, history, last_finish>>

\* `a += b` on a u64: the sum when it fits; otherwise a panic in a build with
\* overflow checks and the wrapped sum in a build without.
Overflows(a, b) == a + b >= CounterMod

WrappingAdd(a, b) == (a + b) % CounterMod

\* QueryLogger::increment_rows_returned
IncrementRowsReturned ==
    /\ pc = "live"
    /\ history.calls < MaxCalls
    /\ IF Overflows(rows_returned, 1) /\ overflow_checks
       THEN /\ pc' = "unwinding"
            /\ history' = [history EXCEPT !.returned_calls = @ + 1, !.calls = @ + 1,
                                          !.panicked = TRUE]
            /\ UNCHANGED rows_returned
       ELSE /\ rows_returned' = WrappingAdd(rows_returned, 1)
            /\ history' = [history EXCEPT !.returned_calls = @ + 1, !.calls = @ + 1,
                              !.late_calls = @ + (IF history.finish_runs > 0 THEN 1 ELSE 0)]
            /\ UNCHANGED pc
    /\ UNCHANGED <<overflow_checks, log_max, tracing_max, sql, settings, rows_affected,
                   start, span, now, records, formatting, last_finish>>

\* QueryLogger::increase_rows_affected
IncreaseRowsAffected(n) ==
    /\ pc = "live"
    /\ history.calls < MaxCalls
    /\ IF Overflows(rows_affected, n) /\ overflow_checks
       THEN /\ pc' = "unwinding"
            /\ history' = [history EXCEPT !.affected_sum = @ + n, !.calls = @ + 1,
                                          !.panicked = TRUE]
            /\ UNCHANGED rows_affected
       ELSE /\ rows_affected' = WrappingAdd(rows_affected, n)
            /\ history' = [history EXCEPT !.affected_sum = @ + n, !.calls = @ + 1,
                              !.late_calls = @ + (IF history.finish_runs > 0 THEN 1 ELSE 0)]
            /\ UNCHANGED pc
    /\ UNCHANGED <<overflow_checks, log_max, tracing_max, sql, settings, rows_returned,
                   start, span, now, records, formatting, last_finish>>

\* ----------------------------------------------------------------- finish
RowCountAffectedOnly(affected, returned) == affected

\* The value passed to span.record("db.row_count", ..), lines 104-108.
RowCount(affected, returned) == IF affected > 0 THEN affected ELSE returned

WasSlowStrict(elapsed, threshold) == elapsed > threshold

\* Line 112.
WasSlow(elapsed, threshold) == elapsed >= threshold

SelectLevelAlwaysSlow(was_slow, s) == s.slow_statements_level

\* Lines 114-118.
SelectLevel(was_slow, s) ==
    IF was_slow THEN s.slow_statements_level ELSE s.statements_level

LogIsEnabledInBoth(levels) ==
    /\ levels # None
    /\ LogEnabled(levels[1][2]) /\ private_tracing_dynamic_enabled(levels[1][1])

\* Lines 120-125: the `if let Some(..)` and the value of log_is_enabled.
LogIsEnabled(levels) ==
    /\ levels # None
    /\ LogEnabled(levels[1][2]) \/ private_tracing_dynamic_enabled(levels[1][1])

\* The character U+2026 appended to a shortened summary.
Ellipsis == "ELLIPSIS"

\* sqlformat::format(sql, QueryParams::None, FormatOptions::default()): the
\* output of the external formatter, kept as an opaque application to its input.
sqlformat_format(text) == <<"sqlformat::format(">> \o text \o <<")">>

SlowMessage == <<"slow", "statement:", "execution", "time", "exceeded", "alert", "threshold">>

NoRendering ==
    [ran |-> FALSE, parsed |-> <<>>, summary |-> <<>>, statement |-> <<>>, formats |-> 0]

RenderedFullAlways(text) ==
    LET summary == parse_query_summary(text)
    IN [ran |-> TRUE,
        parsed |-> summary,
        summary |-> IF summary # text THEN summary \o <<" ", Ellipsis>> ELSE summary,
        statement |-> <<"\n", "\n">> \o sqlformat_format(text) \o <<"\n">>,
        formats |-> 1]

\* Lines 126-140: the summary, with the ellipsis when it differs from the
\* text, and the full statement, rendered only in that case.
Rendered(text) ==
    LET summary == parse_query_summary(text)
    IN [ran |-> TRUE,
        parsed |-> summary,
        summary |-> IF summary # text THEN summary \o <<" ", Ellipsis>> ELSE summary,
        statement |-> IF summary # text
                      THEN <<"\n", "\n">> \o sqlformat_format(text) \o <<"\n">>
                      ELSE <<>>,
        formats |-> IF summary # text THEN 1 ELSE 0]

RenderingAlways(log_is_enabled, text) == Rendered(text)

\* Line 125: the rendering happens only inside `if log_is_enabled`.
Rendering(log_is_enabled, text) ==
    IF log_is_enabled THEN Rendered(text) ELSE NoRendering

\* Lines 142-173: the event of the slow branch and of the normal branch.
Event(was_slow, tracing_level, rendering, elapsed) ==
    [level |-> tracing_level,
     message |-> IF was_slow THEN SlowMessage ELSE <<>>,
     summary |-> rendering.summary,
     statement |-> rendering.statement,
     rows_affected |-> rows_affected,
     rows_returned |-> rows_returned,
     elapsed |-> elapsed,
     slow_threshold |-> IF was_slow THEN settings.slow_statements_duration ELSE EmptyField]

FinishStepsRenderFirst(levels, rendering, log_is_enabled) ==
    <<"span.record", "select_level", "parse_query_summary", "off_check">>
    \o (IF levels # None THEN <<"enabled_check">> ELSE <<>>)
    \o (IF rendering.formats > 0 THEN <<"format">> ELSE <<>>)
    \o (IF log_is_enabled THEN <<"emit">> ELSE <<>>)

\* The statements of finish() in the order in which one run executes them:
\* lines 102-109, 110-118, 120, 123-125, 126, 128-140, 142-173.
FinishSteps(levels, rendering, log_is_enabled) ==
    <<"span.record", "select_level", "off_check">>
    \o (IF levels # None THEN <<"enabled_check">> ELSE <<>>)
    \o (IF rendering.ran THEN <<"parse_query_summary">> ELSE <<>>)
    \o (IF rendering.formats > 0 THEN <<"format">> ELSE <<>>)
    \o (IF log_is_enabled THEN <<"emit">> ELSE <<>>)

\* The body of QueryLogger::finish, run by an explicit call and by drop.
FinishBody(by_drop) ==
    LET row_count == RowCount(rows_affected, rows_returned)
        elapsed == now - start
        was_slow == WasSlow(elapsed, settings.slow_statements_duration)
        lvl == SelectLevel(was_slow, settings)
        levels == private_level_filter_to_levels(lvl)
        log_is_enabled == LogIsEnabled(levels)
        rendering == Rendering(log_is_enabled, sql)
        steps == FinishSteps(levels, rendering, log_is_enabled)
    IN /\ span' = [span EXCEPT !.row_count = row_count, !.recorded = @ + 1]
       /\ formatting' = [formatting EXCEPT
                            !.parse_query_summary = @ + (IF rendering.ran THEN 1 ELSE 0),
                            !.format = @ + rendering.formats]
       /\ records' = IF log_is_enabled
                     THEN Append(records, Event(was_slow, levels[1][1], rendering, elapsed))
                     ELSE records
       /\ last_finish' = [row_count |-> row_count, elapsed |-> elapsed,
                          was_slow |-> was_slow, lvl |-> lvl, levels |-> levels,
                          log_is_enabled |-> log_is_enabled, by_drop |-> by_drop,
                          steps |-> steps, summary |-> rendering.parsed]

\* An explicit call of finish(&self) by the owner.
Finish ==
    /\ pc = "live"
    /\ history.explicit_finishes < MaxFinish
    /\ FinishBody(FALSE)
    /\ history' = [history EXCEPT !.explicit_finishes = @ + 1, !.finish_runs = @ + 1]
    /\ UNCHANGED <<pc, overflow_checks, log_max, tracing_max, sql, settings, rows_returned,
                   rows_affected, start, now>>

DropWithoutFinish ==
    /\ pc \in {"live", "unwinding"}
    /\ pc' = "dropped"
    /\ history' = [history EXCEPT !.drops = @ + 1]
    /\ UNCHANGED <<overflow_checks, log_max, tracing_max, sql, settings, rows_returned,
                   rows_affected, start, now, span, formatting, records, last_finish>>

\* impl Drop for QueryLogger: the scope of the instance ends, by a return or
\* by the unwinding of a panic.
Drop ==
    /\ pc \in {"live", "unwinding"}
    /\ pc' = "dropped"
    /\ FinishBody(TRUE)
    /\ history' = [history EXCEPT !.drops = @ + 1, !.finish_runs = @ + 1]
    /\ UNCHANGED <<overflow_checks, log_max, tracing_max, sql, settings, rows_returned,
                   rows_affected, start, now>>

Next ==
    \/ New
    \/ Tick
    \/ IncrementRowsReturned
    \/ \E n \in AffectedArgs : IncreaseRowsAffected(n)
    \/ Finish
    \/ Drop

Spec == Init /\ [][Next]_vars

\* The settings of the liveness specification: every kind of selected
\* severity (Off, enabled, not enabled) on both paths.
FairLevels == {"Off", "Warn", "Debug"}

FairInit ==
    /\ Init
    /\ settings.statements_level \in FairLevels
    /\ settings.slow_statements_level \in FairLevels
    /\ log_max = "Off"
    /\ sql = <<"a">>

\* The owner's scope always ends: the instance is constructed, and dropped
\* after finitely many calls, by a return or by an unwind.
FairSpec == FairInit /\ [][Next]_vars /\ WF_vars(New) /\ WF_vars(Drop)

\* ---------------------------------------------------- the text routines
\* All texts of at most n characters over an alphabet.
AllTexts(alphabet, n) == UNION {[1..k -> alphabet] : k \in 0..n}

\* The statement texts of the text specification: lines with and without
\* indentation, texts with tabs, and texts of more than SummaryWords words.
TextInputs ==
    AllTexts({" ", "\n", "a"}, MaxTextLen)
        \cup AllTexts({" ", "\n", "\t", "a"}, MaxTabTextLen)
        \cup AllTexts({" ", "a"}, MaxWordsLen)

\* Settings under which every run of finish() emits.
TextSettings ==
    [statements_level |-> "Warn", slow_statements_level |-> "Warn",
     slow_statements_duration |-> MaxTime]

TextInit ==
    /\ pc = "start"
    /\ overflow_checks = FALSE
    /\ log_max = "Info"
    /\ tracing_max = "Off"
    /\ sql \in TextInputs
    /\ settings = TextSettings
    /\ rows_returned = 0
    /\ rows_affected = 0
    /\ start = 0
    /\ span = [resource_name |-> <<>>, operation |-> <<>>, row_count |-> EmptyField,
               recorded |-> 0]
    /\ now = 0
    /\ records = <<>>
    /\ formatting = [trim_query |-> 0, parse_query_summary |-> 0, format |-> 0]
    /\ history = [returned_calls |-> 0, affected_sum |-> 0, calls |-> 0,
                  explicit_finishes |-> 0, finish_runs |-> 0, drops |-> 0,
                  panicked |-> FALSE, late_calls |-> 0]
    /\ last_finish = NotRun

\* new() applies trim_query to the text and the drop applies
\* parse_query_summary and the rendering to it.
TextNext ==
    \/ New
    \/ Drop

TextSpec == TextInit /\ [][TextNext]_vars

\* ------------------------------------------------------------- properties
\* The severity finish() selects when it runs in the current state.
SelectedNow ==
    IF now - start >= settings.slow_statements_duration
    THEN settings.slow_statements_level
    ELSE settings.statements_level

\* A severity that is not Off and is enabled for "sqlx::query" in the log
\* facility or in the tracing facility.
Active(lvl) ==
    /\ lvl # "Off"
    /\ FilterRank(lvl) <= FilterRank(log_max) \/ FilterRank(lvl) <= FilterRank(tracing_max)

FinishRuns == history'.finish_runs # history.finish_runs

\* C1: over the whole lifetime of one QueryLogger at most one event is
\* emitted to "sqlx::query", explicit finish() calls and the drop included.
C1_AtMostOneEvent == Len(records) <= 1

\* C2: when finish() is never called explicitly, the scope of the instance
\* ends, finalization has then run exactly once (by the drop), on a normal
\* exit and on an unwind alike, and exactly one event was emitted if the
\* selected severity was active (none otherwise).
C2_DropFinalizesOnce ==
    /\ <>(pc = "dropped")
    /\ [](pc = "dropped" /\ history.explicit_finishes = 0
            => /\ history.finish_runs = 1
               /\ span.recorded = 1
               /\ Len(records) = (IF Active(last_finish.lvl) THEN 1 ELSE 0))

C2_Witness ==
    /\ pc = "dropped"
    /\ history.explicit_finishes = 0
    /\ history.panicked
    /\ Len(records) = 1

\* C3 (as stated): with statements_level = Off nothing is ever emitted.
C3_OffEmitsNothing == settings.statements_level = "Off" => records = <<>>

\* C3 (amended): with statements_level = Off, a finish() that runs while
\* elapsed < slow_statements_duration, or with slow_statements_level = Off
\* as well, emits nothing, whatever the counters.
C3_OffEmitsNothingUnlessSlow ==
    [][(/\ FinishRuns
        /\ settings.statements_level = "Off"
        /\ \/ now - start < settings.slow_statements_duration
           \/ settings.slow_statements_level = "Off")
       => records' = records]_vars

C3_Witness ==
    /\ settings.statements_level = "Off"
    /\ Active(settings.slow_statements_level)
    /\ history.finish_runs > 0
    /\ ~last_finish.was_slow
    /\ rows_affected > 0
    /\ records = <<>>

HasSlowWord(message) == \E i \in DOMAIN message : message[i] = "slow"

\* C4: every emitted event is classified by the threshold, equality counting
\* as slow: a slow event has the severity of slow_statements_level, a message
\* with the word "slow" and the slow_threshold field; any other event has the
\* severity of statements_level and neither of the two.
C4_ClassifiedByThreshold ==
    \A i \in DOMAIN records :
        LET r == records[i]
        IN IF r.elapsed >= settings.slow_statements_duration
           THEN /\ TracingLevelRank(r.level) = FilterRank(settings.slow_statements_level)
                /\ HasSlowWord(r.message)
                /\ r.slow_threshold = settings.slow_statements_duration
           ELSE /\ TracingLevelRank(r.level) = FilterRank(settings.statements_level)
                /\ ~HasSlowWord(r.message)
                /\ r.slow_threshold = EmptyField

C4_Witness ==
    /\ settings.slow_statements_duration > 0
    /\ settings.slow_statements_level # settings.statements_level
    /\ \E i \in DOMAIN records :
          /\ records[i].elapsed = settings.slow_statements_duration
          /\ HasSlowWord(records[i].message)

C6_CountersAreSums ==
    /\ rows_affected = history.affected_sum
    /\ rows_returned = history.returned_calls

\* C7 (as stated): an instance whose only finalization selected a severity
\* that is not active has invoked no text routine at all, new() included.
C7_NoFormattingEver ==
    (pc = "dropped" /\ history.finish_runs = 1 /\ ~Active(last_finish.lvl))
        => formatting = [trim_query |-> 0, parse_query_summary |-> 0, format |-> 0]

\* C7 (amended): new() invokes trim_query exactly once, whatever the
\* settings; a run of finish() whose selected severity is not active invokes
\* no text routine (no parse_query_summary, no full-statement rendering, no
\* trim_query).
C7_NoFormattingInFinish ==
    /\ [](pc # "start" => formatting.trim_query = 1)
    /\ [][(FinishRuns /\ ~Active(SelectedNow)) => formatting' = formatting]_vars

C7_Witness ==
    /\ pc = "dropped"
    /\ last_finish.lvl = "Debug"
    /\ ~Active(last_finish.lvl)
    /\ Len(SplitWhitespace(sql)) > SummaryWords
    /\ formatting = [trim_query |-> 1, parse_query_summary |-> 0, format |-> 0]

\* C8: no operation panics, whatever the text and the arguments.
C8_NoPanic == ~history.panicked

\* C9: private_level_filter_to_levels returns None exactly for Off, and for
\* the five other filters the tracing level and the log level of that same
\* severity.
C9_LevelsMatchFilter ==
    history.finish_runs > 0 =>
        /\ last_finish.levels = None <=> last_finish.lvl = "Off"
        /\ last_finish.lvl # "Off" =>
              /\ TracingLevelRank(last_finish.levels[1][1]) = FilterRank(last_finish.lvl)
              /\ LogLevelRank(last_finish.levels[1][2]) = FilterRank(last_finish.lvl)

C9_Witness ==
    /\ history.finish_runs > 0
    /\ last_finish.lvl = "Warn"
    /\ last_finish.levels = Some(<<"WARN", "Warn">>)

\* C10: a run of finish() emits exactly one event when the selected severity
\* is not Off and is enabled in the log facility or in the tracing facility,
\* and emits nothing otherwise.
C10_EmitsIffActive ==
    [][FinishRuns
       => IF Active(SelectedNow)
          THEN Len(records') = Len(records) + 1
          ELSE records' = records]_vars

C10_Witness ==
    /\ log_max = "Info"
    /\ tracing_max = "Off"
    /\ history.finish_runs = 1
    /\ Len(records) = 1

\* C16: finalization is the last action on an instance: the explicit and
\* the automatic path never both run, no mutator call takes effect after a
\* run of finish(), and every emitted event carries the values the counters
\* have when the scope ends.
C16_FinalizationIsLast ==
    /\ ~(history.explicit_finishes > 0 /\ history.finish_runs > history.explicit_finishes)
    /\ history.late_calls = 0
    /\ pc = "dropped" =>
          \A i \in DOMAIN records :
              /\ records[i].rows_affected = rows_affected
              /\ records[i].rows_returned = rows_returned

StepIndexes(steps, name) == {i \in DOMAIN steps : steps[i] = name}

\* C17: one run of finish() is an early-exit pipeline: the span row count is
\* recorded first, then the severity is selected, then the Off check and
\* (for a severity other than Off) the enabled check are made;
\* parse_query_summary and the full-statement rendering run only after both
\* checks have passed, and then before the one emit, which ends the run.
C17_EarlyExitPipeline ==
    history.finish_runs > 0 =>
        LET steps == last_finish.steps
            At(name) == StepIndexes(steps, name)
            rendered == At("parse_query_summary") \cup At("format")
        IN /\ SubSeq(steps, 1, 3) = <<"span.record", "select_level", "off_check">>
           /\ At("enabled_check") = (IF last_finish.lvl = "Off" THEN {} ELSE {4})
           /\ Cardinality(At("emit")) <= 1
           /\ At("emit") # {} <=> Active(last_finish.lvl)
           /\ \A e \in At("emit") : e = Len(steps)
           /\ \A r \in rendered :
                 /\ Active(last_finish.lvl)
                 /\ \E c \in At("enabled_check") : c < r
                 /\ \E e \in At("emit") : r < e
           /\ \A f \in At("format") : \E q \in At("parse_query_summary") : q < f
           /\ Active(last_finish.lvl) => Cardinality(At("parse_query_summary")) = 1

C17_Witness ==
    /\ history.finish_runs > 0
    /\ last_finish.steps = <<"span.record", "select_level", "off_check", "enabled_check",
                             "parse_query_summary", "format", "emit">>
    /\ Len(records) = 1

\* C18: increment_rows_returned changes only rows_returned, by exactly +1;
\* increase_rows_affected changes only rows_affected; finish() changes none
\* of sql, rows_returned, rows_affected, start and settings; after
\* construction settings, sql and start never change.
C18_FrameConditions ==
    [][/\ history'.returned_calls # history.returned_calls
            => /\ rows_returned' = rows_returned + 1
               /\ UNCHANGED <<sql, rows_affected, start, settings>>
       /\ (history'.calls # history.calls /\ history'.returned_calls = history.returned_calls)
            => UNCHANGED <<sql, rows_returned, start, settings>>
       /\ FinishRuns => UNCHANGED <<sql, rows_returned, rows_affected, start, settings>>
       /\ pc # "start" => UNCHANGED <<sql, start, settings>>]_vars

\* ------------------------------------------------ properties of the texts
WhitespaceChars == {" ", "\n", "\t"}

\* r is s with its leading and its trailing whitespace removed, and nothing
\* else changed.
Stripped(s, r) ==
    \E i \in 1..(Len(s) + 1) : \E j \in 0..Len(s) :
        /\ r = SubSeq(s, i, j)
        /\ \A k \in 1..(i - 1) : s[k] \in WhitespaceChars
        /\ \A k \in (j + 1)..Len(s) : s[k] \in WhitespaceChars
        /\ r # <<>> => (r[1] \notin WhitespaceChars /\ r[Len(r)] \notin WhitespaceChars)

StrippedOf(s) ==
    CHOOSE r \in {SubSeq(s, i, j) : i \in 1..(Len(s) + 1), j \in 0..Len(s)} : Stripped(s, r)

\* The lines of a text: the pieces between its "\n" characters.
RECURSIVE LinesFrom(_, _, _)
LinesFrom(s, cur, acc) ==
    IF s = <<>> THEN Append(acc, cur)
    ELSE IF Head(s) = "\n" THEN LinesFrom(Tail(s), <<>>, Append(acc, cur))
    ELSE LinesFrom(Tail(s), Append(cur, Head(s)), acc)

Lines(s) == LinesFrom(s, <<>>, <<>>)

LeadingSpaces(line) ==
    CHOOSE n \in 0..Len(line) :
        /\ \A k \in 1..n : line[k] = " "
        /\ n = Len(line) \/ line[n + 1] # " "

NonBlank(line) == \E k \in DOMAIN line : line[k] \notin WhitespaceChars

\* A line that starts with one or more spaces followed by a non-whitespace
\* character.
Indented(line) ==
    /\ LeadingSpaces(line) >= 1
    /\ LeadingSpaces(line) < Len(line)
    /\ line[LeadingSpaces(line) + 1] \notin WhitespaceChars

IndentedLines(lines) == {i \in DOMAIN lines : Indented(lines[i])}

\* What new() computed from the text: the span's label.
TrimQueryResult == span.resource_name

\* C11 (as stated): when a non-blank line of the trimmed text starts with a
\* non-space character, trim_query returns the text with only its leading
\* and trailing whitespace removed.
C11_ZeroIndentUnchanged ==
    (/\ pc # "start"
     /\ \E i \in DOMAIN Lines(StrippedOf(sql)) :
           LET line == Lines(StrippedOf(sql))[i]
           IN NonBlank(line) /\ line[1] # " ")
        => Stripped(sql, TrimQueryResult)

\* C11 (amended): when no line of the trimmed text starts with one or more
\* spaces followed by a non-whitespace character, trim_query returns the
\* text with only its leading and trailing whitespace removed.
C11_NoIndentedLineUnchanged ==
    (pc # "start" /\ IndentedLines(Lines(StrippedOf(sql))) = {})
        => Stripped(sql, TrimQueryResult)

C11_Witness ==
    /\ pc # "start"
    /\ IndentedLines(Lines(StrippedOf(sql))) = {}
    /\ \E i \in DOMAIN Lines(StrippedOf(sql)) : LeadingSpaces(Lines(StrippedOf(sql))[i]) >= 1
    /\ sql # StrippedOf(sql)
    /\ TrimQueryResult = StrippedOf(sql)

\* C13: for a text made only of whitespace characters trim_query returns
\* the empty string.
C13_WhitespaceOnlyToEmpty ==
    (pc # "start" /\ \A k \in DOMAIN sql : sql[k] \in WhitespaceChars)
        => TrimQueryResult = <<>>

C13_Witness ==
    /\ pc # "start"
    /\ \A k \in DOMAIN sql : sql[k] \in WhitespaceChars
    /\ \E k \in DOMAIN sql : sql[k] = "\n"
    /\ \E k \in DOMAIN sql : sql[k] = " "
    /\ \E k \in DOMAIN sql : sql[k] = "\t"
    /\ TrimQueryResult = <<>>

SetMinimum(S) == CHOOSE m \in S : \A x \in S : m <= x

DropSpaces(line, n) ==
    SubSeq(line, (IF LeadingSpaces(line) < n THEN LeadingSpaces(line) ELSE n) + 1, Len(line))

NonBlankLines(s) == SelectSeq(Lines(s), NonBlank)

\* C12 (as stated): trim_query subtracts the minimum indentation from every
\* non-blank line of the text, the first line included, so the difference
\* between the leading-space counts of any two non-blank lines is the same
\* in the output as in the input.
C12_RelativeIndentationKept ==
    pc # "start" =>
        LET input == NonBlankLines(sql)
            output == NonBlankLines(TrimQueryResult)
        IN /\ Len(output) = Len(input)
           /\ \A i, j \in DOMAIN input :
                 LeadingSpaces(output[i]) - LeadingSpaces(output[j])
                     = LeadingSpaces(input[i]) - LeadingSpaces(input[j])

\* C12 (amended): with m the least leading-space count among the lines of
\* the trimmed text that start with spaces followed by a non-whitespace
\* character, trim_query removes exactly m leading spaces from each of those
\* lines (their differences are kept) and at most m, as many as there are,
\* from every other line; the first line has none left after the trim.
C12_IndentedLinesShifted ==
    pc # "start" =>
        LET input == Lines(StrippedOf(sql))
            output == Lines(TrimQueryResult)
            indented == IndentedLines(input)
            m == IF indented = {} THEN 0
                 ELSE SetMinimum({LeadingSpaces(input[i]) : i \in indented})
        IN /\ Len(output) = Len(input)
           /\ LeadingSpaces(input[1]) = 0
           /\ \A i \in DOMAIN input : output[i] = DropSpaces(input[i], m)
           /\ \A i \in indented : LeadingSpaces(output[i]) = LeadingSpaces(input[i]) - m
           /\ \A i, j \in indented :
                 LeadingSpaces(output[i]) - LeadingSpaces(output[j])
                     = LeadingSpaces(input[i]) - LeadingSpaces(input[j])

C12_Witness ==
    /\ pc # "start"
    /\ \E i, j \in IndentedLines(Lines(StrippedOf(sql))) :
          /\ LeadingSpaces(Lines(StrippedOf(sql))[i]) = 1
          /\ LeadingSpaces(Lines(StrippedOf(sql))[j]) = 2
          /\ LeadingSpaces(Lines(TrimQueryResult)[i]) = 0
          /\ LeadingSpaces(Lines(TrimQueryResult)[j]) = 1

\* C19 (as stated): the result of trim_query is a fixed point of trim_query.
C19_Idempotent == pc # "start" => trim_query(TrimQueryResult) = TrimQueryResult

\* C19 (amended): when all the lines of the trimmed text that start with
\* spaces followed by a non-whitespace character have the same number of
\* leading spaces, the result of trim_query is a fixed point of trim_query.
C19_IdempotentOnUniformIndent ==
    (/\ pc # "start"
     /\ \A i, j \in IndentedLines(Lines(StrippedOf(sql))) :
           LeadingSpaces(Lines(StrippedOf(sql))[i]) = LeadingSpaces(Lines(StrippedOf(sql))[j]))
        => trim_query(TrimQueryResult) = TrimQueryResult

C19_Witness ==
    /\ pc # "start"
    /\ Cardinality(IndentedLines(Lines(StrippedOf(sql)))) >= 2
    /\ \A i, j \in IndentedLines(Lines(StrippedOf(sql))) :
          LeadingSpaces(Lines(StrippedOf(sql))[i]) = LeadingSpaces(Lines(StrippedOf(sql))[j])
    /\ TrimQueryResult # StrippedOf(sql)
    /\ trim_query(TrimQueryResult) = TrimQueryResult

\* The words of a text: the maximal runs of non-whitespace characters, as
\* pairs of their first and last position.
WordSpans(s) ==
    {sp \in (DOMAIN s) \X (DOMAIN s) :
        /\ sp[1] <= sp[2]
        /\ \A k \in sp[1]..sp[2] : s[k] \notin WhitespaceChars
        /\ sp[1] = 1 \/ s[sp[1] - 1] \in WhitespaceChars
        /\ sp[2] = Len(s) \/ s[sp[2] + 1] \in WhitespaceChars}

\* The n-th word of a text, counted from 1.
Word(s, n) ==
    LET sp == CHOOSE w \in WordSpans(s) :
                  Cardinality({v \in WordSpans(s) : v[1] < w[1]}) = n - 1
    IN SubSeq(s, sp[1], sp[2])

\* What the last run of finish() got from parse_query_summary.
SummaryResult == last_finish.summary

\* C14: parse_query_summary returns the first min(4, k) of the k words of
\* the text, in order, separated by exactly one space, with no leading or
\* trailing whitespace; the empty string when the text has no word.
C14_FirstFourWords ==
    (history.finish_runs > 0 /\ last_finish.log_is_enabled) =>
        LET k == Cardinality(WordSpans(sql))
            m == IF k < 4 THEN k ELSE 4
            r == SummaryResult
        IN /\ Cardinality(WordSpans(r)) = m
           /\ \A n \in 1..m : Word(r, n) = Word(sql, n)
           /\ \A i \in DOMAIN r :
                 r[i] \in WhitespaceChars =>
                     /\ r[i] = " "
                     /\ i # 1 /\ i # Len(r)
                     /\ r[i + 1] \notin WhitespaceChars
           /\ k = 0 => r = <<>>

C14_Witness ==
    /\ history.finish_runs > 0
    /\ last_finish.log_is_enabled
    /\ Cardinality(WordSpans(sql)) > 4
    /\ Len(Word(sql, 2)) > 1
    /\ sql[1] = " "
    /\ Cardinality(WordSpans(SummaryResult)) = 4

====
